---- MODULE Spec2Model ----
(***************************************************************************)
(* Ember.String (packages/ember-runtime/lib/system/string.js): the six     *)
(* cached inflection functions, w and loc/_fmt.                            *)
(*                                                                         *)
(* A JavaScript string is a sequence of characters; a character is a       *)
(* one-character TLA+ string.  The two extended Latin letters U+00E9 and   *)
(* U+00C9 are written "u00E9" and "u00C9".                                 *)
(***************************************************************************)
EXTENDS Integers, Sequences, FiniteSets, TLC

VARIABLES store, misses, last, budget, inputs, formats, tmpl, log, tracing

vars == <<store, misses, last, budget, inputs, formats, tmpl, log, tracing>>

(***************************************************************************)
(* Characters and the character classes the regular expressions use.       *)
(***************************************************************************)
LowerLetters ==
  <<"a","b","c","d","e","f","g","h","i","j","k","l","m",
    "n","o","p","q","r","s","t","u","v","w","x","y","z">>

UpperLetters ==
  <<"A","B","C","D","E","F","G","H","I","J","K","L","M",
    "N","O","P","Q","R","S","T","U","V","W","X","Y","Z">>

DigitChars == <<"0","1","2","3","4","5","6","7","8","9">>

SeqRange(q) == {q[i] : i \in 1..Len(q)}

IndexOf(q, c) == CHOOSE i \in 1..Len(q) : q[i] = c

\* [a-z]
IsLower(c) == c \in SeqRange(LowerLetters)

\* [A-Z]
IsUpper(c) == c \in SeqRange(UpperLetters)

\* \d and [0-9]
IsDigit(c) == c \in SeqRange(DigitChars)

\* [\u00C0-\u024F], of which the model's alphabet holds U+00C9 and U+00E9
IsExtLatin(c) == c \in {"u00C9", "u00E9"}

\* \s
SpaceChars == {" ", "\t", "\n"}

IsSpace(c) == c \in SpaceChars

\* . (any character but a line terminator)
IsDot(c) == c # "\n"

\* String.prototype.toUpperCase, one character
toUpperCaseChar(c) ==
  IF IsLower(c) THEN UpperLetters[IndexOf(LowerLetters, c)]
  ELSE IF c = "u00E9" THEN "u00C9"
  ELSE c

\* String.prototype.toLowerCase, one character
toLowerCaseChar(c) ==
  IF IsUpper(c) THEN LowerLetters[IndexOf(UpperLetters, c)]
  ELSE IF c = "u00C9" THEN "u00E9"
  ELSE c

toUpperCase(s) == [i \in 1..Len(s) |-> toUpperCaseChar(s[i])]

toLowerCase(s) == [i \in 1..Len(s) |-> toLowerCaseChar(s[i])]

\* the end (inclusive) of the maximal run of characters of the set class that starts at i
RECURSIVE RunEnd(_, _, _)
RunEnd(s, i, class) ==
  IF i < Len(s) /\ s[i + 1] \in class THEN RunEnd(s, i + 1, class) ELSE i

(***************************************************************************)
(* decamelize: str.replace(/([a-z\d])([A-Z])/g, '$1_$2').toLowerCase()     *)
(***************************************************************************)
RECURSIVE STRING_DECAMELIZE_REGEXP(_, _)
STRING_DECAMELIZE_REGEXP(s, i) ==
  IF i > Len(s) THEN <<>>
  ELSE IF i < Len(s) /\ (IsLower(s[i]) \/ IsDigit(s[i])) /\ IsUpper(s[i + 1])
       THEN <<s[i], "_", s[i + 1]>> \o STRING_DECAMELIZE_REGEXP(s, i + 2)
       ELSE <<s[i]>> \o STRING_DECAMELIZE_REGEXP(s, i + 1)

DECAMELIZE_CACHE_func(str) == toLowerCase(STRING_DECAMELIZE_REGEXP(str, 1))

(***************************************************************************)
(* dasherize: decamelize(key).replace(/[ _]/g, '-'); here the replace.     *)
(***************************************************************************)
\* Faulty variant: the pattern /[ _]+/g, one hyphen for a whole run.
STRING_DASHERIZE_REGEXP_runs(s) ==
  LET F[i \in 1..(Len(s) + 1)] ==
        IF i > Len(s) THEN <<>>
        ELSE IF s[i] \in {" ", "_"}
             THEN <<"-">> \o F[RunEnd(s, i, {" ", "_"}) + 1]
             ELSE <<s[i]>> \o F[i + 1]
  IN  F[1]

\* Faulty variant: the pattern /[ _]/ without the g flag, the first match only.
STRING_DASHERIZE_REGEXP_first(s) ==
  [i \in 1..Len(s) |->
     IF s[i] \in {" ", "_"} /\ \A j \in 1..(i - 1) : s[j] \notin {" ", "_"}
     THEN "-"
     ELSE s[i]]

STRING_DASHERIZE_REGEXP(s) ==
  [i \in 1..Len(s) |-> IF s[i] \in {" ", "_"} THEN "-" ELSE s[i]]

(***************************************************************************)
(* camelize                                                                *)
(***************************************************************************)
\* (\-|\_|\.|\s)
CamelizeSeparators == {"-", "_", "."} \cup SpaceChars

IsCamelizeSeparator(c) == c \in CamelizeSeparators

\* key.replace(/(\-|\_|\.|\s)+(.)?/g, (match, separator, chr) =>
\*             chr ? chr.toUpperCase() : '')
RECURSIVE STRING_CAMELIZE_REGEXP_1(_, _)
STRING_CAMELIZE_REGEXP_1(s, i) ==
  IF i > Len(s) THEN <<>>
  ELSE IF IsCamelizeSeparator(s[i])
       THEN LET j == RunEnd(s, i, CamelizeSeparators)
            IN  IF j < Len(s) /\ IsDot(s[j + 1])
                THEN <<toUpperCaseChar(s[j + 1])>> \o STRING_CAMELIZE_REGEXP_1(s, j + 2)
                ELSE STRING_CAMELIZE_REGEXP_1(s, j + 1)
       ELSE <<s[i]>> \o STRING_CAMELIZE_REGEXP_1(s, i + 1)

\* Faulty variant: the pattern /^([A-Z])/, the first segment only.
STRING_CAMELIZE_REGEXP_2_first(s, i) ==
  IF Len(s) > 0 /\ IsUpper(s[1])
  THEN <<toLowerCaseChar(s[1])>> \o SubSeq(s, 2, Len(s))
  ELSE s

\* .replace(/(^|\/)([A-Z])/g, match => match.toLowerCase())
RECURSIVE STRING_CAMELIZE_REGEXP_2(_, _)
STRING_CAMELIZE_REGEXP_2(s, i) ==
  IF i > Len(s) THEN <<>>
  ELSE IF i = 1 /\ IsUpper(s[1])
       THEN <<toLowerCaseChar(s[1])>> \o STRING_CAMELIZE_REGEXP_2(s, 2)
       ELSE IF s[i] = "/" /\ i < Len(s) /\ IsUpper(s[i + 1])
            THEN <<"/", toLowerCaseChar(s[i + 1])>> \o STRING_CAMELIZE_REGEXP_2(s, i + 2)
            ELSE <<s[i]>> \o STRING_CAMELIZE_REGEXP_2(s, i + 1)

CAMELIZE_CACHE_func(key) ==
  STRING_CAMELIZE_REGEXP_2(STRING_CAMELIZE_REGEXP_1(key, 1), 1)

(***************************************************************************)
(* classify                                                                *)
(***************************************************************************)
\* str.split('/'): the fragments between the slashes, empty ones kept
RECURSIVE SplitSlash(_, _, _)
SplitSlash(s, i, cur) ==
  IF i > Len(s) THEN <<cur>>
  ELSE IF s[i] = "/" THEN <<cur>> \o SplitSlash(s, i + 1, <<>>)
       ELSE SplitSlash(s, i + 1, Append(cur, s[i]))

\* parts.join('/')
RECURSIVE JoinSlash(_)
JoinSlash(parts) ==
  IF Len(parts) = 0 THEN <<>>
  ELSE IF Len(parts) = 1 THEN parts[1]
       ELSE parts[1] \o <<"/">> \o JoinSlash(Tail(parts))

IsDashOrUnderscore(c) == c \in {"-", "_"}

\* part.replace(/^(\-|_)+(.)?/, (match, separator, chr) =>
\*              chr ? `_${chr.toUpperCase()}` : '')
STRING_CLASSIFY_REGEXP_1(s) ==
  IF Len(s) > 0 /\ IsDashOrUnderscore(s[1])
  THEN LET j == RunEnd(s, 1, {"-", "_"})
       IN  IF j < Len(s) /\ IsDot(s[j + 1])
           THEN <<"_", toUpperCaseChar(s[j + 1])>> \o SubSeq(s, j + 2, Len(s))
           ELSE SubSeq(s, j + 1, Len(s))
  ELSE s

\* .replace(/(.)(\-|\_|\.|\s)+(.)?/g, (match, initialChar, separator, chr) =>
\*          initialChar + (chr ? chr.toUpperCase() : ''))
RECURSIVE STRING_CLASSIFY_REGEXP_2(_, _)
STRING_CLASSIFY_REGEXP_2(s, i) ==
  IF i > Len(s) THEN <<>>
  ELSE IF IsDot(s[i]) /\ i < Len(s) /\ IsCamelizeSeparator(s[i + 1])
       THEN LET j == RunEnd(s, i + 1, CamelizeSeparators)
            IN  IF j < Len(s) /\ IsDot(s[j + 1])
                THEN <<s[i], toUpperCaseChar(s[j + 1])>> \o STRING_CLASSIFY_REGEXP_2(s, j + 2)
                ELSE <<s[i]>> \o STRING_CLASSIFY_REGEXP_2(s, j + 1)
       ELSE <<s[i]>> \o STRING_CLASSIFY_REGEXP_2(s, i + 1)

\* .replace(/(^|\/|\.)([a-z])/g, match => match.toUpperCase())
RECURSIVE STRING_CLASSIFY_REGEXP_3(_, _)
STRING_CLASSIFY_REGEXP_3(s, i) ==
  IF i > Len(s) THEN <<>>
  ELSE IF i = 1 /\ IsLower(s[1])
       THEN <<toUpperCaseChar(s[1])>> \o STRING_CLASSIFY_REGEXP_3(s, 2)
       ELSE IF s[i] \in {"/", "."} /\ i < Len(s) /\ IsLower(s[i + 1])
            THEN <<s[i], toUpperCaseChar(s[i + 1])>> \o STRING_CLASSIFY_REGEXP_3(s, i + 2)
            ELSE <<s[i]>> \o STRING_CLASSIFY_REGEXP_3(s, i + 1)

CLASSIFY_CACHE_func(str) ==
  LET parts == SplitSlash(str, 1, <<>>)
      done  == [i \in 1..Len(parts) |->
                  STRING_CLASSIFY_REGEXP_2(STRING_CLASSIFY_REGEXP_1(parts[i]), 1)]
  IN  STRING_CLASSIFY_REGEXP_3(JoinSlash(done), 1)

(***************************************************************************)
(* underscore                                                              *)
(***************************************************************************)
\* str.replace(/([a-z\d])([A-Z]+)/g, '$1_$2')
RECURSIVE STRING_UNDERSCORE_REGEXP_1(_, _)
STRING_UNDERSCORE_REGEXP_1(s, i) ==
  IF i > Len(s) THEN <<>>
  ELSE IF i < Len(s) /\ (IsLower(s[i]) \/ IsDigit(s[i])) /\ IsUpper(s[i + 1])
       THEN LET j == RunEnd(s, i + 1, SeqRange(UpperLetters))
            IN  <<s[i], "_">> \o SubSeq(s, i + 1, j) \o STRING_UNDERSCORE_REGEXP_1(s, j + 1)
       ELSE <<s[i]>> \o STRING_UNDERSCORE_REGEXP_1(s, i + 1)

\* .replace(/\-|\s+/g, '_')
RECURSIVE STRING_UNDERSCORE_REGEXP_2(_, _)
STRING_UNDERSCORE_REGEXP_2(s, i) ==
  IF i > Len(s) THEN <<>>
  ELSE IF s[i] = "-" THEN <<"_">> \o STRING_UNDERSCORE_REGEXP_2(s, i + 1)
  ELSE IF IsSpace(s[i])
       THEN <<"_">> \o STRING_UNDERSCORE_REGEXP_2(s, RunEnd(s, i, SpaceChars) + 1)
       ELSE <<s[i]>> \o STRING_UNDERSCORE_REGEXP_2(s, i + 1)

UNDERSCORE_CACHE_func(str) ==
  toLowerCase(STRING_UNDERSCORE_REGEXP_2(STRING_UNDERSCORE_REGEXP_1(str, 1), 1))

(***************************************************************************)
(* capitalize: str.replace(/(^|\/)([a-z\u00C0-\u024F])/g,                  *)
(*                         match => match.toUpperCase())                   *)
(***************************************************************************)
RECURSIVE STRING_CAPITALIZE_REGEXP(_, _)
STRING_CAPITALIZE_REGEXP(s, i) ==
  IF i > Len(s) THEN <<>>
  ELSE IF i = 1 /\ (IsLower(s[1]) \/ IsExtLatin(s[1]))
       THEN <<toUpperCaseChar(s[1])>> \o STRING_CAPITALIZE_REGEXP(s, 2)
       ELSE IF s[i] = "/" /\ i < Len(s) /\ (IsLower(s[i + 1]) \/ IsExtLatin(s[i + 1]))
            THEN <<"/", toUpperCaseChar(s[i + 1])>> \o STRING_CAPITALIZE_REGEXP(s, i + 2)
            ELSE <<s[i]>> \o STRING_CAPITALIZE_REGEXP(s, i + 1)

CAPITALIZE_CACHE_func(str) == STRING_CAPITALIZE_REGEXP(str, 1)

(***************************************************************************)
(* w: str.split(/\s+/)                                                     *)
(***************************************************************************)
\* String.prototype.split on a pattern that matches no empty string: the
\* fragments between the matches, the empty ones (before a leading match,
\* after a trailing one, the whole of an empty string) kept
RECURSIVE SplitSpace(_, _, _)
SplitSpace(s, i, cur) ==
  IF i > Len(s) THEN <<cur>>
  ELSE IF IsSpace(s[i])
       THEN <<cur>> \o SplitSpace(s, RunEnd(s, i, SpaceChars) + 1, <<>>)
       ELSE SplitSpace(s, i + 1, Append(cur, s[i]))

w(str) == SplitSpace(str, 1, <<>>)

(***************************************************************************)
(* JavaScript values handed to loc and _fmt.                               *)
(***************************************************************************)
Null == [t |-> "null", v |-> <<>>]

Undefined == [t |-> "undefined", v |-> <<>>]

Str(s) == [t |-> "string", v |-> s]

Num(n) == [t |-> "number", v |-> n]

Arr(a) == [t |-> "array", v |-> a]

\* isArray of ../utils
isArray(x) == x.t = "array"

\* '' + n for a number n >= 0
RECURSIVE NumToStr(_)
NumToStr(n) ==
  IF n < 10 THEN <<DigitChars[n + 1]>>
  ELSE NumToStr(n \div 10) \o <<DigitChars[(n % 10) + 1]>>

\* parseInt(digits, 10) of a non-empty run of [0-9]
RECURSIVE parseInt(_)
parseInt(digits) ==
  IF Len(digits) = 0 THEN 0
  ELSE 10 * parseInt(SubSeq(digits, 1, Len(digits) - 1))
       + (IndexOf(DigitChars, digits[Len(digits)]) - 1)

\* Array.prototype.join(','), null and undefined elements as ''
RECURSIVE JoinComma(_)
JoinComma(a) ==
  IF Len(a) = 0 THEN <<>>
  ELSE LET x    == a[1]
           head == IF x.t = "string" THEN x.v
                   ELSE IF x.t = "number" THEN NumToStr(x.v)
                   ELSE IF x.t = "array" THEN JoinComma(x.v)
                   ELSE <<>>
       IN  IF Len(a) = 1 THEN head ELSE head \o <<",">> \o JoinComma(Tail(a))

\* inspect of ember-utils, the generic value-to-display-string conversion
inspect(x) ==
  IF x.t = "null" THEN <<"n","u","l","l">>
  ELSE IF x.t = "undefined" THEN <<"u","n","d","e","f","i","n","e","d">>
  ELSE IF x.t = "array" THEN <<"[">> \o JoinComma(x.v) \o <<"]">>
  ELSE IF x.t = "number" THEN NumToStr(x.v)
  ELSE x.v

(***************************************************************************)
(* _fmt(str, formats): args holds the arguments after str.                 *)
(***************************************************************************)
\* cachedFormats[argIndex]
ArrayAt(a, argIndex) ==
  IF argIndex >= 0 /\ argIndex < Len(a) THEN a[argIndex + 1] ELSE Undefined

\* (s === null) ? '(null)' : (s === undefined) ? '' : inspect(s)
FmtValue(x) ==
  IF x.t = "null" THEN <<"(","n","u","l","l",")">>
  ELSE IF x.t = "undefined" THEN <<>>
  ELSE inspect(x)

\* Faulty variant: a %@N token advances the positional counter too.
RECURSIVE FmtReplace_counting(_, _, _, _)
FmtReplace_counting(s, i, idx, cachedFormats) ==
  IF i > Len(s) THEN <<>>
  ELSE IF s[i] = "%" /\ i < Len(s) /\ s[i + 1] = "@"
       THEN LET j        == RunEnd(s, i + 1, SeqRange(DigitChars))
                digits   == SubSeq(s, i + 2, j)
                argIndex == IF Len(digits) > 0 THEN parseInt(digits) - 1 ELSE idx
            IN  FmtValue(ArrayAt(cachedFormats, argIndex))
                  \o FmtReplace_counting(s, j + 1, idx + 1, cachedFormats)
       ELSE <<s[i]>> \o FmtReplace_counting(s, i + 1, idx, cachedFormats)

\* str.replace(/%@([0-9]+)?/g, (s, argIndex) => ...), idx the positional counter
RECURSIVE FmtReplace(_, _, _, _)
FmtReplace(s, i, idx, cachedFormats) ==
  IF i > Len(s) THEN <<>>
  ELSE IF s[i] = "%" /\ i < Len(s) /\ s[i + 1] = "@"
       THEN LET j        == RunEnd(s, i + 1, SeqRange(DigitChars))
                digits   == SubSeq(s, i + 2, j)
                argIndex == IF Len(digits) > 0 THEN parseInt(digits) - 1 ELSE idx
                idx2     == IF Len(digits) > 0 THEN idx ELSE idx + 1
            IN  FmtValue(ArrayAt(cachedFormats, argIndex))
                  \o FmtReplace(s, j + 1, idx2, cachedFormats)
       ELSE <<s[i]>> \o FmtReplace(s, i + 1, idx, cachedFormats)

_fmt(str, args) ==
  LET cachedFormats ==
        IF Len(args) = 0 \/ ~isArray(args[1]) \/ Len(args) + 1 > 2
        THEN args
        ELSE args[1].v
  IN  FmtReplace(str, 1, 0, cachedFormats)

(***************************************************************************)
(* loc(str, formats): args holds the arguments after str.                  *)
(***************************************************************************)
\* the registry of ../string_registry (Ember.STRINGS), owned by the application
STRINGS ==
  [key \in {<<"_","H","i"," ","%","@">>} |-> <<"S","a","l","u","t"," ","%","@">>]

\* get of ../string_registry
getString(name) == IF name \in DOMAIN STRINGS THEN Str(STRINGS[name]) ELSE Undefined

loc(str, args) ==
  LET formats1 ==
        IF Len(args) = 0 \/ ~isArray(args[1]) \/ Len(args) + 1 > 2
        THEN Arr(args)
        ELSE args[1]
      found == getString(str)
      \* getString(str) || str
      str1 == IF found.t = "string" /\ Len(found.v) > 0 THEN found.v ELSE str
  IN  _fmt(str1, <<formats1>>)

(***************************************************************************)
(* Cache of ember-metal: a bounded memoizing store, the oldest inserted    *)
(* entry evicted first.  A cache's state is the sequence of its entries,   *)
(* oldest first; misses counts the calls of its compute function.          *)
(***************************************************************************)
\* the capacity every cache of string.js is constructed with (1000 in the source)
CacheLimit == 2

CacheNames ==
  {"decamelize", "dasherize", "camelize", "classify", "underscore", "capitalize"}

Cache_has(entries, key) == \E i \in 1..Len(entries) : entries[i].key = key

Cache_value(entries, key) ==
  entries[CHOOSE i \in 1..Len(entries) : entries[i].key = key].value

\* Faulty variant: a full cache stores the new entry and evicts nothing.
Cache_set_unbounded(entries, key, value) ==
  Append(entries, [key |-> key, value |-> value])

\* store (key, value), the oldest entry evicted first when the cache is full
Cache_set(entries, key, value) ==
  LET entry == [key |-> key, value |-> value]
  IN  IF Len(entries) >= CacheLimit
      THEN Append(Tail(entries), entry)
      ELSE Append(entries, entry)

\* the outcome of a compute function that touches no cache
Pure(S, value) == [ret |-> value, store |-> S.store, misses |-> S.misses]

\* Faulty variant: a hit moves the entry to the young end (LRU, not FIFO).
Cache_get_lru(S, name, key, computed) ==
  IF Cache_has(S.store[name], key)
  THEN [ret    |-> Cache_value(S.store[name], key),
        store  |-> [S.store EXCEPT ![name] =
                      Append(SelectSeq(@, LAMBDA e : e.key # key),
                             [key |-> key, value |-> Cache_value(S.store[name], key)])],
        misses |-> S.misses,
        miss   |-> FALSE]
  ELSE [ret    |-> computed.ret,
        store  |-> [computed.store EXCEPT ![name] = Cache_set(@, key, computed.ret)],
        misses |-> [computed.misses EXCEPT ![name] = @ + 1],
        miss   |-> TRUE]

\* Cache.get(key) on the cache called name, in state S = [store, misses];
\* computed is the outcome of func(key): its value and the state it leaves
Cache_get(S, name, key, computed) ==
  IF Cache_has(S.store[name], key)
  THEN [ret    |-> Cache_value(S.store[name], key),
        store  |-> S.store,
        misses |-> S.misses,
        miss   |-> FALSE]
  ELSE [ret    |-> computed.ret,
        store  |-> [computed.store EXCEPT ![name] = Cache_set(@, key, computed.ret)],
        misses |-> [computed.misses EXCEPT ![name] = @ + 1],
        miss   |-> TRUE]

(***************************************************************************)
(* The exported inflection functions: each returns its value and the       *)
(* state of the caches it leaves.                                          *)
(***************************************************************************)
decamelize(S, str) ==
  Cache_get(S, "decamelize", str, Pure(S, DECAMELIZE_CACHE_func(str)))

\* key => decamelize(key).replace(STRING_DASHERIZE_REGEXP, '-')
STRING_DASHERIZE_CACHE_func(S, key) ==
  LET d == decamelize(S, key)
  IN  [ret |-> STRING_DASHERIZE_REGEXP(d.ret), store |-> d.store, misses |-> d.misses]

\* Faulty variant: dasherize looks its key up in the camelize cache.
dasherize_in_camelize_cache(S, str) ==
  Cache_get(S, "camelize", str, STRING_DASHERIZE_CACHE_func(S, str))

dasherize(S, str) ==
  Cache_get(S, "dasherize", str, STRING_DASHERIZE_CACHE_func(S, str))

camelize(S, str) ==
  Cache_get(S, "camelize", str, Pure(S, CAMELIZE_CACHE_func(str)))

classify(S, str) ==
  Cache_get(S, "classify", str, Pure(S, CLASSIFY_CACHE_func(str)))

underscore(S, str) ==
  Cache_get(S, "underscore", str, Pure(S, UNDERSCORE_CACHE_func(str)))

\* Faulty variant: capitalize runs its compute function on every call.
capitalize_uncached(S, str) ==
  [ret    |-> CAPITALIZE_CACHE_func(str),
   store  |-> S.store,
   misses |-> [S.misses EXCEPT !["capitalize"] = @ + 1],
   miss   |-> TRUE]

capitalize(S, str) ==
  Cache_get(S, "capitalize", str, Pure(S, CAPITALIZE_CACHE_func(str)))

(***************************************************************************)
(* The state machine: a client calls the exported functions.               *)
(*   store, misses  the six caches                                         *)
(*   last           the last call: function, argument, returned value,     *)
(*                  whether the compute function ran, and whether the call *)
(*                  repeats the one before it                              *)
(*   budget         calls the client still makes                           *)
(*   inputs         the strings the client passes                          *)
(*   formats        the arguments the client passes to loc after str       *)
(*   tmpl           the pieces the client built its loc template from      *)
(*   log, tracing   when tracing, the log of the calls made                *)
(***************************************************************************)
Now == [store |-> store, misses |-> misses]

NoCall == [fn |-> "none", arg |-> <<>>, ret |-> <<>>, miss |-> FALSE, repeat |-> FALSE]

Returned(fn, s, r) ==
  /\ budget > 0
  /\ budget' = budget - 1
  /\ store' = r.store
  /\ misses' = r.misses
  /\ last' = [fn |-> fn, arg |-> s, ret |-> r.ret, miss |-> r.miss,
              repeat |-> (last.fn = fn /\ last.arg = s)]
  /\ log' = IF tracing THEN Append(log, [fn |-> fn, key |-> s, miss |-> r.miss]) ELSE log
  /\ UNCHANGED <<inputs, formats, tmpl, tracing>>

Uncached(value) == [ret |-> value, store |-> store, misses |-> misses, miss |-> FALSE]

CallDecamelize == \E s \in inputs : Returned("decamelize", s, decamelize(Now, s))

CallDasherize == \E s \in inputs : Returned("dasherize", s, dasherize(Now, s))

CallCamelize == \E s \in inputs : Returned("camelize", s, camelize(Now, s))

CallClassify == \E s \in inputs : Returned("classify", s, classify(Now, s))

CallUnderscore == \E s \in inputs : Returned("underscore", s, underscore(Now, s))

CallCapitalize == \E s \in inputs : Returned("capitalize", s, capitalize(Now, s))

CallW == \E s \in inputs : Returned("w", s, Uncached(w(s)))

CallLoc == \E s \in inputs : Returned("loc", s, Uncached(loc(s, formats)))

EmptyCaches ==
  /\ store = [n \in CacheNames |-> <<>>]
  /\ misses = [n \in CacheNames |-> 0]
  /\ last = NoCall
  /\ log = <<>>

(***************************************************************************)
(* Spec: a client that calls every function on a few keys.                 *)
(***************************************************************************)
MaxCalls == 3

Keys ==
  {<<"a","B">>, <<"a","_","b">>, <<"a"," ","b","/","C">>, <<"_","H","i"," ","%","@">>}

Init ==
  /\ EmptyCaches
  /\ budget = MaxCalls
  /\ inputs = Keys
  /\ formats = <<Arr(<<Str(<<"x">>)>>)>>
  /\ tmpl = <<>>
  /\ tracing = FALSE

Next ==
  \/ CallDecamelize
  \/ CallDasherize
  \/ CallCamelize
  \/ CallClassify
  \/ CallUnderscore
  \/ CallCapitalize
  \/ CallW
  \/ CallLoc

Spec == Init /\ [][Next]_vars

(***************************************************************************)
(* SpecCache: one cache driven only by get, every call logged.             *)
(***************************************************************************)
MaxGets == 5

CacheKeys == {<<"a">>, <<"b">>, <<"c">>, <<"d">>}

InitCache ==
  /\ EmptyCaches
  /\ budget = MaxGets
  /\ inputs = CacheKeys
  /\ formats = <<>>
  /\ tmpl = <<>>
  /\ tracing = TRUE

NextCache == CallDecamelize

SpecCache == InitCache /\ [][NextCache]_vars

IsMiss(e) == e.miss

\* the keys of the logged calls that ran the compute function, in order
MissedKeys == LET m == SelectSeq(log, IsMiss) IN [i \in 1..Len(m) |-> m[i].key]

\* the keys resident in the logged cache, oldest first
ResidentKeys ==
  [i \in 1..Len(store["decamelize"]) |-> store["decamelize"][i].key]

LastN(q, n) == SubSeq(q, Len(q) - n + 1, Len(q))

Min(a, b) == IF a < b THEN a ELSE b

\* the log is exactly K+1 gets of K+1 distinct keys, K the capacity
FilledOnce ==
  /\ Len(log) = CacheLimit + 1
  /\ \A i, j \in 1..Len(log) : i # j => log[i].key # log[j].key

\* C1: strict FIFO.  The resident keys, in eviction order, are the last K keys
\* whose get ran the compute function (K the capacity), so the entry evicted is
\* the oldest inserted and a hit moves nothing; and after gets of K+1 distinct
\* keys k1..k(K+1), a get of k1 runs the compute function again and a get of
\* any of k2..k(K+1) does not.
C1_FifoEviction ==
  tracing =>
    /\ ResidentKeys = LastN(MissedKeys, Min(CacheLimit, Len(MissedKeys)))
    /\ FilledOnce =>
         /\ decamelize(Now, log[1].key).miss
         /\ \A i \in 2..Len(log) : ~decamelize(Now, log[i].key).miss

\* k1..k(K+1) were requested, then a key was hit, then k1 was requested again
\* and recomputed
C1_Witness ==
  /\ tracing
  /\ Len(log) >= CacheLimit + 2
  /\ \A i, j \in 1..(CacheLimit + 1) : i # j => log[i].key # log[j].key
  /\ log[Len(log)].key = log[1].key
  /\ log[Len(log)].miss
  /\ \E i \in 1..Len(log) : ~log[i].miss

(***************************************************************************)
(* SpecStr: a client that holds one string (any string of at most MaxLen   *)
(* characters of Alphabet, a documented example, or an example with        *)
(* extended Latin letters) and calls the functions on it.                  *)
(***************************************************************************)
MaxLen == 3

StrCalls == 1

Alphabet == {"a", "B", "1", "_", " ", "-", "/", "."}

Examples ==
  { <<"p","r","i","v","a","t","e","D","o","c","s","/","o","w","n","e","r","I","n","v","o","i","c","e">>,
    <<"p","r","i","v","a","t","e","-","d","o","c","s","/","o","w","n","e","r","-","i","n","v","o","i","c","e">>,
    <<"i","n","n","e","r","H","T","M","L">>,
    <<"m","y"," ","f","a","v","o","r","i","t","e"," ","i","t","e","m","s">>,
    <<"a","l","p","h","a"," "," ","b","e","t","a"," ","g","a","m","m","a">>,
    <<"u00E9","/","u00E9">>,
    <<"u00C9","-","a","/","u00C9","B">> }

StrInputs == UNION {[1..n -> Alphabet] : n \in 0..MaxLen} \cup Examples

InitStr ==
  /\ EmptyCaches
  /\ budget = StrCalls
  /\ inputs \in {{s} : s \in StrInputs}
  /\ formats = <<>>
  /\ tmpl = <<>>
  /\ tracing = FALSE

SpecStr == InitStr /\ [][Next]_vars

\* s with every maximal run of spaces and underscores replaced by one hyphen
RECURSIVE HyphenateRuns(_, _)
HyphenateRuns(s, i) ==
  IF i > Len(s) THEN <<>>
  ELSE IF s[i] \in {" ", "_"}
       THEN <<"-">> \o HyphenateRuns(s, RunEnd(s, i, {" ", "_"}) + 1)
       ELSE <<s[i]>> \o HyphenateRuns(s, i + 1)

\* C5 as claimed: dasherize(s) is decamelize(s) with every maximal run of
\* spaces and/or underscores replaced by exactly one hyphen.
C5_RunsBecomeOneHyphen ==
  last.fn = "dasherize" =>
    last.ret = HyphenateRuns(decamelize(Now, last.arg).ret, 1)

\* C5 as amended: dasherize(s) is decamelize(s) with every single space and
\* every single underscore replaced by one hyphen, so it has the length of
\* decamelize(s) and a run of n such characters yields n hyphens.
C5_EachBecomesHyphen ==
  last.fn = "dasherize" =>
    LET d == decamelize(Now, last.arg).ret
    IN  /\ Len(last.ret) = Len(d)
        /\ \A i \in 1..Len(d) :
             last.ret[i] = (IF d[i] \in {" ", "_"} THEN "-" ELSE d[i])

\* dasherize was called on a string holding two adjacent spaces or underscores
C5_Witness ==
  /\ last.fn = "dasherize"
  /\ \E i \in 1..(Len(last.arg) - 1) :
       last.arg[i] \in {" ", "_"} /\ last.arg[i + 1] \in {" ", "_"}
  /\ \E i \in 1..(Len(last.ret) - 1) : last.ret[i] = "-" /\ last.ret[i + 1] = "-"

\* C6 as claimed: no element of w(s) is the empty string.
C6_NoEmptyFragment ==
  last.fn = "w" => \A i \in 1..Len(last.ret) : Len(last.ret[i]) > 0

\* C7 as claimed: capitalize('privateDocs/ownerInvoice') returns
\* 'PrivateDocs/ownerInvoice'.
C7_CapitalizeExample ==
  (last.fn = "capitalize" /\ last.arg = <<"p","r","i","v","a","t","e","D","o","c","s","/","o","w","n","e","r","I","n","v","o","i","c","e">>)
    => last.ret = <<"P","r","i","v","a","t","e","D","o","c","s","/","o","w","n","e","r","I","n","v","o","i","c","e">>

\* C8: underscore and dasherize are idempotent: called on its own result,
\* each returns that result.
C8_Idempotent ==
  /\ last.fn = "underscore" => underscore(Now, last.ret).ret = last.ret
  /\ last.fn = "dasherize" => dasherize(Now, last.ret).ret = last.ret

\* underscore or dasherize was called and changed its argument
C8_Witness ==
  /\ last.fn \in {"underscore", "dasherize"}
  /\ last.ret # last.arg
  /\ \E i \in 1..Len(last.arg) : IsUpper(last.arg[i])
  /\ \E i \in 1..Len(last.arg) : last.arg[i] \in {" ", "-", "_"}

\* C10: camelize(s) is the result of removing each run of '-', '_', '.' and
\* whitespace and upper-casing the character after it, with the first letter
\* of every '/'-separated segment lower-cased when it is one of A-Z and nothing
\* else changed: no segment of camelize(s) begins with a letter A-Z.
C10_CamelizeSegments ==
  last.fn = "camelize" =>
    LET r1 == STRING_CAMELIZE_REGEXP_1(last.arg, 1)
    IN  /\ Len(last.ret) = Len(r1)
        /\ \A i \in 1..Len(r1) :
             IF i = 1 \/ r1[i - 1] = "/"
             THEN /\ ~IsUpper(last.ret[i])
                  /\ last.ret[i] = (IF IsUpper(r1[i]) THEN toLowerCaseChar(r1[i]) ELSE r1[i])
             ELSE last.ret[i] = r1[i]
        /\ last.arg = <<"p","r","i","v","a","t","e","-","d","o","c","s","/","o","w","n","e","r","-","i","n","v","o","i","c","e">>
             => last.ret = <<"p","r","i","v","a","t","e","D","o","c","s","/","o","w","n","e","r","I","n","v","o","i","c","e">>

\* camelize was called on a string whose second or later segment begins, once
\* the separators are removed, with an upper-case letter
C10_Witness ==
  /\ last.fn = "camelize"
  /\ LET r1 == STRING_CAMELIZE_REGEXP_1(last.arg, 1)
     IN  \E i \in 2..Len(r1) : r1[i - 1] = "/" /\ IsUpper(r1[i])

(***************************************************************************)
(* SpecFmt: a client that builds a template from at most MaxSegs pieces    *)
(* (literal text, a bare %@, a %@N) and calls loc with it and at most      *)
(* MaxArgs arguments, handed over as one array or one by one.              *)
(***************************************************************************)
MaxSegs == 3

MaxArgs == 2

Lit(text) == [k |-> "lit", n |-> 0, text |-> text]

Bare == [k |-> "bare", n |-> 0, text |-> <<"%", "@">>]

Idx(n) == [k |-> "idx", n |-> n, text |-> <<"%", "@">> \o NumToStr(n)]

SegKinds == {Lit(<<"a">>), Lit(<<"%">>), Bare, Idx(0), Idx(1), Idx(2)}

ArgValues == {Null, Undefined, Str(<<"x">>), Num(12)}

ArgLists == UNION {[1..n -> ArgValues] : n \in 0..MaxArgs}

RECURSIVE Flatten(_)
Flatten(segs) ==
  IF Len(segs) = 0 THEN <<>> ELSE Head(segs).text \o Flatten(Tail(segs))

InitFmt ==
  /\ EmptyCaches
  /\ budget = StrCalls
  /\ tmpl \in UNION {[1..n -> SegKinds] : n \in 0..MaxSegs}
  /\ inputs = {Flatten(tmpl)}
  /\ formats \in ArgLists \cup {<<Arr(a)>> : a \in ArgLists}
  /\ tracing = FALSE

NextFmt == CallLoc

SpecFmt == InitFmt /\ [][NextFmt]_vars

\* the argument sequence the client handed over
GivenArgs ==
  IF Len(formats) = 1 /\ formats[1].t = "array" THEN formats[1].v ELSE formats

\* the n-th argument (1-based) as text: '(null)' for null, '' for undefined
\* or out of range
Shown(args, n) ==
  IF n >= 1 /\ n <= Len(args)
  THEN IF args[n].t = "null" THEN <<"(","n","u","l","l",")">>
       ELSE IF args[n].t = "undefined" THEN <<>>
       ELSE inspect(args[n])
  ELSE <<>>

\* the pieces rendered in order, k the number of bare tokens already rendered
RECURSIVE Formatted(_, _, _)
Formatted(segs, k, args) ==
  IF Len(segs) = 0 THEN <<>>
  ELSE LET g == Head(segs)
       IN  IF g.k = "lit" THEN g.text \o Formatted(Tail(segs), k, args)
           ELSE IF g.k = "bare"
                THEN Shown(args, k + 1) \o Formatted(Tail(segs), k + 1, args)
                ELSE Shown(args, g.n) \o Formatted(Tail(segs), k, args)

\* C9: format replaces the k-th bare %@ (counting only bare tokens) with the
\* k-th argument and every %@N with the N-th argument, %@N not advancing the
\* count; null is rendered '(null)', undefined or out of range as ''; and
\* every template and argument sequence yields a result.
C9_Format ==
  last.fn = "loc" => last.ret = Formatted(tmpl, 0, GivenArgs)

\* loc was called with a %@N before a bare %@, a null and a non-null argument
C9_Witness ==
  /\ last.fn = "loc"
  /\ \E i, j \in 1..Len(tmpl) : i < j /\ tmpl[i].k = "idx" /\ tmpl[i].n = 2 /\ tmpl[j].k = "bare"
  /\ Len(GivenArgs) = 2 /\ GivenArgs[1].t = "number" /\ GivenArgs[2].t = "null"

(***************************************************************************)
(* Claims about the caches, checked under Spec.                            *)
(***************************************************************************)
\* C2: a call of an inflection function that repeats the call before it (same
\* function, same string) returns the same string and does not run the
\* function's compute function: its cache's miss count stays as it was.
C2_SecondCallHits ==
  [][(last'.repeat /\ last'.fn \in CacheNames) =>
        /\ last'.ret = last.ret
        /\ ~last'.miss
        /\ misses'[last'.fn] = misses[last'.fn]]_vars

\* dasherize was called twice in a row on one string; the first call computed
C2_Witness ==
  /\ last.repeat
  /\ last.fn = "dasherize"
  /\ ~last.miss
  /\ misses["dasherize"] = 1

KeysOf(entries) == {entries[i].key : i \in 1..Len(entries)}

\* C3: every cache holds at most its capacity of entries, and a miss of a full
\* cache leaves it full, with exactly one resident key gone and the new key in.
C3_SizeBounded ==
  /\ [](\A n \in CacheNames :
          /\ Len(store[n]) <= CacheLimit
          /\ Cardinality(KeysOf(store[n])) = Len(store[n]))
  /\ [][\A n \in CacheNames :
          (Len(store[n]) = CacheLimit /\ misses'[n] = misses[n] + 1) =>
             /\ Len(store'[n]) = CacheLimit
             /\ Cardinality(KeysOf(store[n]) \ KeysOf(store'[n])) = 1
             /\ KeysOf(store'[n]) \ KeysOf(store[n]) = {last'.arg}]_vars

\* a full cache missed: its oldest key is gone and the new key is resident
C3_Witness ==
  /\ last.fn = "capitalize"
  /\ last.miss
  /\ misses["capitalize"] = CacheLimit + 1
  /\ Len(store["capitalize"]) = CacheLimit
  /\ Cache_has(store["capitalize"], last.arg)

\* C4 as claimed: a call of one inflection function changes the contents, size
\* and miss count of no other function's cache.
C4_NoOtherCacheChanges ==
  [][\A n \in CacheNames :
        n # last'.fn => (store'[n] = store[n] /\ misses'[n] = misses[n])]_vars

\* C4 as amended: a call of an inflection function that hits changes no cache;
\* one that misses changes no cache but its own, except that a dasherize miss
\* does to the decamelize cache what a decamelize call on the same string does.
C4_OnlyDasherizeTouchesDecamelize ==
  [][/\ ~last'.miss => (store' = store /\ misses' = misses)
     /\ \A n \in CacheNames :
          n # last'.fn =>
            \/ store'[n] = store[n] /\ misses'[n] = misses[n]
            \/ /\ n = "decamelize"
               /\ last'.fn = "dasherize"
               /\ last'.miss
               /\ store'[n] = decamelize(Now, last'.arg).store[n]
               /\ misses'[n] = decamelize(Now, last'.arg).misses[n]]_vars

\* the first call made was a dasherize, and the decamelize cache holds its key
C4_Witness ==
  /\ budget = MaxCalls - 1
  /\ last.fn = "dasherize"
  /\ last.miss
  /\ Cache_has(store["decamelize"], last.arg)
  /\ misses["decamelize"] = 1

====
